---- MODULE Spec2Model ----
(***************************************************************************)
(* USPS Informed Delivery automation: the run of the local script          *)
(* (nova_act_local.py), of the Lambda function (lambda/lambda_function.py) *)
(* and of the lambda/utils components (MailImageExtractor with             *)
(* S3Uploader.upload_file as its upload callback, S3Uploader.upload_logs). *)
(* Every call into the agent, the browser page, the file system or S3 is   *)
(* one step whose outcome (returns / raises, and the value returned) is    *)
(* chosen by the environment.                                              *)
(***************************************************************************)
EXTENDS Integers, Sequences, FiniteSets, TLC

(***************************************************************************)
(* Bounds of the model.                                                    *)
(***************************************************************************)
\* most image elements on the Informed Delivery page
MaxImages == 2
\* most files in the agent's logs directory
MaxLogFiles == 2

(***************************************************************************)
(* Python string operations used by the code: str.lower, str.upper, `in`.  *)
(***************************************************************************)
LowerAlphabet == "abcdefghijklmnopqrstuvwxyz"
UpperAlphabet == "ABCDEFGHIJKLMNOPQRSTUVWXYZ"

CharAt(s, i) == SubSeq(s, i, i)

\* the position of the one-character string c in alphabet, 0 when absent
IndexIn(c, alphabet) ==
    IF \E i \in 1..Len(alphabet) : CharAt(alphabet, i) = c
    THEN CHOOSE i \in 1..Len(alphabet) : CharAt(alphabet, i) = c
    ELSE 0

MapChar(c, from, to) ==
    IF IndexIn(c, from) = 0 THEN c ELSE CharAt(to, IndexIn(c, from))

RECURSIVE MapString(_, _, _)
MapString(s, from, to) ==
    IF Len(s) = 0 THEN ""
    ELSE MapChar(CharAt(s, 1), from, to) \o MapString(SubSeq(s, 2, Len(s)), from, to)

\* str.lower()
Lower(s) == MapString(s, UpperAlphabet, LowerAlphabet)
\* str.upper()
Upper(s) == MapString(s, LowerAlphabet, UpperAlphabet)

\* Python's  sub in s
Contains(s, sub) ==
    \E i \in 1..(Len(s) - Len(sub) + 1) : SubSeq(s, i, i + Len(sub) - 1) = sub

(***************************************************************************)
(* The page: image elements with their src and alt attributes.  An         *)
(* attribute is <<>> when the element does not have it (get_attribute      *)
(* returns None) and <<value>> otherwise.                                  *)
(***************************************************************************)
None == <<>>

ImageElems ==
    << [src |-> <<"/mail/a.png">>,    alt |-> <<"Mail Piece Images">>],
       [src |-> <<"/mail/logo.png">>, alt |-> <<"USPS Logo">>],
       [src |-> None,                 alt |-> <<"mail scan">>],
       [src |-> <<"/mail/a.png">>,    alt |-> <<"mail">>],
       [src |-> <<"/img/b.png">>,     alt |-> <<"mail Banner">>],
       [src |-> <<"/mail/c.png">>,    alt |-> None],
       [src |-> <<"">>,               alt |-> <<"mail piece">>] >>

Elems == 1..Len(ImageElems)

\* element.get_attribute(name)
GetAttribute(e, name) == IF name = "src" THEN ImageElems[e].src ELSE ImageElems[e].alt

\* Python truthiness of an attribute value: None and '' are falsy
Truthy(attr) == attr /= None /\ attr[1] /= ""

\* attr or ''
OrEmpty(attr) == IF Truthy(attr) THEN attr[1] ELSE ""

\* the pages the browser may show: at most MaxImages image elements,
\* in document order
Pages == { p \in SUBSET Elems : Cardinality(p) <= MaxImages }

\* the css selectors of check_mail_images, as attribute-contains tests
selectors ==
    << [attr |-> "alt", value |-> "Mail Piece Images"],
       [attr |-> "alt", value |-> "mail"],
       [attr |-> "src", value |-> "mail"] >>

Matches(e, sel) ==
    LET a == GetAttribute(e, sel.attr)
    IN  a /= None /\ Contains(a[1], sel.value)

RECURSIVE InDocumentOrder(_)
InDocumentOrder(S) ==
    IF S = {} THEN <<>>
    ELSE LET m == CHOOSE x \in S : \A y \in S : x <= y
         IN  <<m>> \o InDocumentOrder(S \ {m})

\* the elements each selector matches
MatchedBy == [i \in 1..Len(selectors) |-> { e \in Elems : Matches(e, selectors[i]) }]

\* page.query_selector_all(selectors[i]) on page p
QuerySelectorAll(p, i) == InDocumentOrder(p \cap MatchedBy[i])

(***************************************************************************)
(* The image filters of the local script and of MailImageExtractor.        *)
(***************************************************************************)
skip_keywords == {"logo", "banner", "icon", "button", "nav"}

\* any(keyword in src.lower() or keyword in alt.lower() for keyword in skip_keywords)
HasSkipKeyword(src, alt) ==
    \E keyword \in skip_keywords :
        Contains(Lower(src), keyword) \/ Contains(Lower(alt), keyword)

\* the elements whose src or alt names one of the skip keywords
UiElements ==
    { e \in Elems :
        HasSkipKeyword(OrEmpty(GetAttribute(e, "src")), OrEmpty(GetAttribute(e, "alt"))) }

IsUiElement(e) == e \in UiElements

address_keywords == {"ADDRESS", "RECIPIENT", "STREET", "ZIP"}

\* 'HAS_ADDRESS' in analysis_text or any(keyword in analysis_text for ...)
HasAddress(analysis_result) ==
    LET analysis_text == Upper(analysis_result)
    IN  \/ Contains(analysis_text, "HAS_ADDRESS")
        \/ \E keyword \in address_keywords : Contains(analysis_text, keyword)

\* what the agent may answer to the analysis instruction
AnalysisAnswers == {"HAS_ADDRESS", "NO_ADDRESS", "Blank image"}

\* has_address for each of these answers
HasAddressOf == [a \in AnalysisAnswers |-> HasAddress(a)]

\* a faulty loop: every candidate is kept
RemoveDuplicatesKeepsAll(imgs, seen_srcs) == imgs

\* _remove_duplicate_images / the "Remove duplicates" loop: the first element
\* of each truthy src, in order
RECURSIVE RemoveDuplicates(_, _)
RemoveDuplicates(imgs, seen_srcs) ==
    IF imgs = <<>> THEN <<>>
    ELSE LET img == Head(imgs)
             src == GetAttribute(img, "src")
         IN  IF Truthy(src) /\ src[1] \notin seen_srcs
             THEN <<img>> \o RemoveDuplicates(Tail(imgs), seen_srcs \cup {src[1]})
             ELSE RemoveDuplicates(Tail(imgs), seen_srcs)

(***************************************************************************)
(* The scripted steps: the calls each method makes, in order.  kind is     *)
(* "start" (nova_act.start), "act" (nova_act.act with instruction arg),    *)
(* "type" (page.keyboard.type), "wait" (page.wait_for_timeout) or "url"    *)
(* (page.url).                                                             *)
(***************************************************************************)
Call(kind, arg) == [kind |-> kind, arg |-> arg]

StartScript(v) ==
    IF v = "lambda"
    THEN << Call("start", ""), Call("act", "click sign in") >>
    ELSE << Call("start", ""), Call("url", ""),
            Call("act", "click sign in; if already on a sign-in page, proceed") >>

LoginCore ==
    << Call("act", "focus username field"), Call("type", "username"),
       Call("act", "focus password field"), Call("type", "password"),
       Call("act", "click the sign in button to submit") >>

LoginScript(v) ==
    IF v = "lambda"
    THEN << Call("wait", "3000") >> \o LoginCore
         \o << Call("wait", "3000"), Call("act", "check if the login was successful") >>
    ELSE LoginCore \o << Call("act", "check if the login was successful") >>

FidScript(v) ==
    IF v = "lambda"
    THEN << Call("act", "click Informed Delivery in the Receive dropdown") >>
    ELSE << Call("url", ""),
            Call("act", "click Informed Delivery button or link"),
            Call("act", "click Sign In for Informed Delivery") >>

MailCheckInstruction == "look for today's mail images"
AnalysisInstruction == "examine this mail image for addressing information"

\* the act instructions of a script
RECURSIVE ActsOf(_)
ActsOf(script) ==
    IF script = <<>> THEN <<>>
    ELSE (IF Head(script).kind = "act" THEN <<Head(script).arg>> ELSE <<>>)
         \o ActsOf(Tail(script))

\* what the agent may report to the login check
LoginCheckAnswers == {"logged in", "login was not successful: error message shown"}

(***************************************************************************)
(* State.                                                                  *)
(***************************************************************************)
VARIABLES
    variant,        \* "local": LocalUSPSAutomator.run; "lambda": lambda_handler, which
                    \* constructs LambdaUSPSAutomator and calls its run;
                    \* "extractor": MailImageExtractor.check_mail_images;
                    \* "uploader": S3Uploader.upload_logs
    SAVE_LOGS,      \* what os.environ.get gave for SAVE_LOGS in the finally clause
                    \* (local): None when unset, and until it is read
    s3_bucket,      \* os.environ S3_BUCKET_NAME (Lambda)
    secret_name,    \* os.environ SECRET_NAME (Lambda)
    credentials,    \* _get_credentials: "none", "fetched" or "raised"
    response,       \* what lambda_handler returned: statusCode and the body's success
    pc,             \* the statement the run is at
    idx,            \* position in the script of the current method
    nova_act,       \* self.nova_act is set
    started,        \* nova_act.start() has returned
    stopCalls,      \* number of calls of nova_act.stop()
    stopRaised,     \* nova_act.stop() has raised
    success,        \* run's success
    error_message,  \* run's error_message ("None" for None)
    steps,          \* how each method of run ended
    page,           \* the image elements of the page shown
    selIdx,         \* the selector the loop is at
    images,         \* the result of the last query_selector_all
    imgIdx,         \* the image the loop is at
    all_images,     \* all_images
    unique_images,  \* unique_images
    shotAttempt,    \* the screenshot retry loop's attempt (MailImageExtractor)
    files,          \* uploaded_files / saved_files
    attempt,        \* the retry loop's attempt
    uploadFrom,     \* what is being persisted: "image" or "fallback"
    putLog,         \* outcomes of the put_object calls of the current upload
    uploadResult,   \* what the last upload returned: "none", "running", "True", "False"
    logs_dir,       \* "unset", "missing" or "exists"
    logFiles,       \* the files os.walk finds in the logs directory
    logIdx,         \* the log file the loop is at
    saved_logs,     \* saved_logs / uploaded_logs
    logStore,       \* the log files written under <today_dir>/logs, or the log objects
                    \* put in the bucket: destination and bytes
    logError,       \* a call of the log persistence has raised
    logsAttempted,  \* _save_logs_to_file / upload_logs has been called
    lastLog,        \* the put_object calls made for the last log file
    actLog,         \* the instructions given to nova_act.act so far
    opOutside,      \* an agent or page call was made outside a started session
    loginCheck,     \* the agent's answer to the login check
    lastDecision,   \* the last image analysed: element, answer, included
    putCalled,      \* put_object has been called, or a file of the run written
    persisted,      \* the names of the files for which _upload_to_s3 / upload_file /
                    \* _save_to_file returned True, in order
    fallbackTried,  \* the full page screenshot has been attempted
    analysisLog,    \* the candidates analysed so far in check_mail_images, in order,
                    \* each with whether its analysis raised
    shotLog,        \* the calls the current (or last) call of _take_image_screenshot
                    \* or _take_fallback_screenshot has made, in order
    shotResult      \* how that call ended: "none", "running", "bytes", "raised",
                    \* "path" or "None"

constVars   == <<variant, s3_bucket, secret_name>>
handlerVars == <<credentials, response>>
sessionVars == <<nova_act, started, stopCalls, stopRaised>>
resultVars  == <<success, error_message>>
imgVars     == <<page, selIdx, images, imgIdx, all_images, unique_images, shotAttempt>>
persistVars == <<files, attempt, uploadFrom, putLog, uploadResult>>
logVars     == <<SAVE_LOGS, logs_dir, logFiles, logIdx, saved_logs, logStore, logError,
                 logsAttempted, lastLog>>
histVars    == <<actLog, opOutside, loginCheck, lastDecision, putCalled, persisted,
                 fallbackTried>>
shotVars    == <<shotLog, shotResult>>

vars == <<constVars, handlerVars, pc, idx, sessionVars, resultVars, steps, imgVars,
          persistVars, logVars, histVars, analysisLog, shotVars>>

Variants == {"local", "lambda", "extractor", "uploader"}
RunVariants == {"local", "lambda"}
StepNames == {"initialize_nova_act", "start_and_navigate", "attempt_login",
              "find_informed_delivery", "check_mail_images"}

NoDecision == [elem |-> 0, answer |-> "", included |-> FALSE]
NoLog == [path |-> 0, calls |-> 0, ok |-> FALSE]

\* what SAVE_LOGS may be: unset, or set to some text
SaveLogsValues == {None, <<"True">>, <<"false">>, <<"">>}

\* what os.environ.get may give for a name: None, '' or a name
EnvValues == {None, <<"">>, <<"usps">>}
NoResponse == [statusCode |-> 0, success |-> FALSE]

Init ==
    /\ variant \in Variants
    /\ SAVE_LOGS = None
    /\ s3_bucket \in (IF variant = "lambda" THEN EnvValues ELSE {None})
    /\ secret_name \in (IF variant = "lambda" THEN EnvValues ELSE {None})
    /\ credentials = "none"
    /\ response = NoResponse
    /\ pc = (IF variant = "extractor" THEN "check_mail_images"
             ELSE IF variant = "uploader" THEN "upload_logs"
             ELSE IF variant = "lambda" THEN "lambda_handler"
             ELSE "initialize_nova_act")
    /\ idx = 1
    \* MailImageExtractor is handed a session its caller has started
    /\ nova_act = (variant = "extractor")
    /\ started = (variant = "extractor")
    /\ stopCalls = 0
    /\ stopRaised = FALSE
    /\ success = FALSE
    /\ error_message = "None"
    /\ steps = [s \in StepNames |-> "not called"]
    /\ page = {}
    /\ selIdx = 1
    /\ images = <<>>
    /\ imgIdx = 1
    /\ all_images = <<>>
    /\ unique_images = <<>>
    /\ shotAttempt = 0
    /\ files = <<>>
    /\ attempt = 0
    /\ uploadFrom = "none"
    /\ putLog = <<>>
    /\ uploadResult = "none"
    /\ logs_dir = "unset"
    /\ logFiles = <<>>
    /\ logIdx = 1
    /\ saved_logs = <<>>
    /\ logStore = {}
    /\ logError = FALSE
    /\ logsAttempted = FALSE
    /\ lastLog = NoLog
    /\ actLog = <<>>
    /\ opOutside = FALSE
    /\ loginCheck = "none"
    /\ lastDecision = NoDecision
    /\ putCalled = FALSE
    /\ persisted = << >>
    /\ fallbackTried = FALSE
    /\ analysisLog = <<>>
    /\ shotLog = <<>>
    /\ shotResult = "none"

\* a call made on the agent, the page or an element: recorded, and checked
\* against the session's lifecycle
Performed(call) ==
    /\ actLog' = (IF call.kind = "act" THEN Append(actLog, call.arg) ELSE actLog)
    /\ opOutside' = (opOutside \/ (call.kind /= "start" /\ ~(started /\ stopCalls = 0)))

(***************************************************************************)
(* lambda_handler and the constructor of LambdaUSPSAutomator.              *)
(***************************************************************************)

\* if not s3_bucket or not secret_name:
MissingEnvironment(bucket, secret) == ~Truthy(bucket) \/ ~Truthy(secret)

\* a faulty handler: an exception of the constructor or of run is not caught
LambdaHandlerReraises == [pc |-> "raised", statusCode |-> 0, success |-> FALSE]

\* lambda_handler's except clause: the response it returns
LambdaHandlerExcept == [pc |-> "responded", statusCode |-> 500, success |-> FALSE]

\* lambda_handler up to the construction of the automator: the event is
\* logged (it is the JSON document the Lambda runtime parsed, which json.dumps
\* serialises), then the environment variables are read and checked
LambdaHandler ==
    /\ pc = "lambda_handler"
    /\ IF MissingEnvironment(s3_bucket, secret_name)
       THEN /\ pc' = "responded"
            /\ response' = [statusCode |-> 500, success |-> FALSE]
       ELSE /\ pc' = "get_credentials"
            /\ response' = response
    /\ UNCHANGED <<constVars, analysisLog, shotVars, credentials, idx, sessionVars, resultVars, steps, imgVars,
                   persistVars, logVars, histVars>>

\* LambdaUSPSAutomator.__init__: the boto3 clients, then _get_credentials,
\* which logs and raises again whatever get_secret_value, json.loads or the
\* lookup of username and password raise; run is called next
GetCredentials ==
    /\ pc = "get_credentials"
    /\ \E outcome \in {"boto3.client raises", "get_secret_value raises",
                        "json.loads raises", "fetched"} :
        IF outcome = "fetched"
        THEN /\ credentials' = "fetched"
             /\ pc' = "initialize_nova_act"
             /\ response' = response
        ELSE /\ credentials' = (IF outcome = "boto3.client raises" THEN "none" ELSE "raised")
             /\ pc' = LambdaHandlerExcept.pc
             /\ response' = [statusCode |-> LambdaHandlerExcept.statusCode,
                             success |-> LambdaHandlerExcept.success]
    /\ UNCHANGED <<constVars, analysisLog, shotVars, idx, sessionVars, resultVars, steps, imgVars, persistVars,
                   logVars, histVars>>

\* a faulty handler: whatever run returns is reported as 200
StatusCodeAlwaysOk(result_success) == IF result_success THEN 200 ELSE 200

\* status_code = 200 if result['success'] else 500
StatusCode(result_success) == IF result_success THEN 200 ELSE 500

\* lambda_handler after run returned: the response is made of run's result
LambdaHandlerReturn ==
    /\ pc = "done"
    /\ variant = "lambda"
    /\ pc' = "responded"
    /\ response' = [statusCode |-> StatusCode(success), success |-> success]
    /\ UNCHANGED <<constVars, analysisLog, shotVars, credentials, idx, sessionVars, resultVars, steps, imgVars,
                   persistVars, logVars, histVars>>

(***************************************************************************)
(* run: initialize_nova_act, start_and_navigate, attempt_login,            *)
(* find_informed_delivery, check_mail_images, finally.                     *)
(***************************************************************************)

\* the exceptions a call may raise: raised with no argument, or with a message
Exceptions == { [args |-> << >>], [args |-> <<"Timeout 60000ms exceeded">>] }

\* a faulty conversion: no message becomes the None object
StrOrNone(e) == IF e.args = << >> THEN "None" ELSE e.args[1]

\* str(e): the empty string for an exception without arguments, else its
\* message; always a str, never the None object (which "None" stands for)
Str(e) == IF e.args = << >> THEN "" ELSE e.args[1]

\* run's except clause: error_message = str(e), then the finally clause
RunExcept(e) == [pc |-> "finally", error_message |-> Str(e)]

\* initialize_nova_act: the logs directory is made, then NovaAct constructed;
\* any exception is logged and raised again
InitializeNovaAct ==
    /\ pc = "initialize_nova_act"
    /\ \E outcome \in {"ok", "makedirs raises", "NovaAct raises"} :
        /\ logs_dir' = (IF variant /= "local" THEN logs_dir
                        ELSE IF outcome = "makedirs raises" THEN "missing" ELSE "exists")
        /\ IF outcome = "ok"
           THEN /\ nova_act' = TRUE
                /\ steps' = [steps EXCEPT !["initialize_nova_act"] = "returned"]
                /\ pc' = "start_and_navigate"
                /\ error_message' = error_message
           ELSE /\ nova_act' = nova_act
                /\ steps' = [steps EXCEPT !["initialize_nova_act"] = "raised"]
                /\ \E e \in Exceptions :
                       /\ pc' = RunExcept(e).pc
                       /\ error_message' = RunExcept(e).error_message
    /\ idx' = 1
    /\ UNCHANGED <<constVars, analysisLog, shotVars, handlerVars, started, stopCalls, stopRaised, success, imgVars,
                   persistVars,
                   SAVE_LOGS, logFiles, logIdx, saved_logs, logStore, logError,
                   logsAttempted, lastLog, histVars>>

\* a faulty except clause: the exception is logged and not raised again
StartAndNavigateSwallows(e) == [pc |-> "attempt_login", error_message |-> "None"]

\* where start_and_navigate's except clause leads: it raises again, into run's except
StartAndNavigateExcept(e) == RunExcept(e)

\* start_and_navigate: one call of its script
StartAndNavigate ==
    /\ pc = "start_and_navigate"
    /\ LET script == StartScript(variant)
           call == script[idx]
       IN  \E ok \in BOOLEAN :
            /\ Performed(call)
            /\ started' = (started \/ (call.kind = "start" /\ ok))
            /\ IF ~ok
               THEN /\ \E e \in Exceptions :
                           /\ pc' = StartAndNavigateExcept(e).pc
                           /\ error_message' = StartAndNavigateExcept(e).error_message
                    /\ idx' = 1
                    /\ steps' = [steps EXCEPT !["start_and_navigate"] = "raised"]
               ELSE /\ error_message' = error_message
                    /\ IF idx < Len(script)
                       THEN /\ pc' = pc
                            /\ idx' = idx + 1
                            /\ steps' = [steps EXCEPT !["start_and_navigate"] = "running"]
                       ELSE /\ pc' = "attempt_login"
                            /\ idx' = 1
                            /\ steps' = [steps EXCEPT !["start_and_navigate"] = "returned"]
    /\ UNCHANGED <<constVars, analysisLog, shotVars, handlerVars, nova_act, stopCalls, stopRaised, success, imgVars,
                   persistVars,
                   logVars, loginCheck, lastDecision,
                   putCalled, persisted, fallbackTried>>

\* attempt_login's return value after the login check: the answer is logged only
AttemptLoginReturn(login_check) == TRUE

\* attempt_login's except clause: return False
AttemptLoginExcept == FALSE

\* a faulty run: the result of attempt_login is not acted on
AfterAttemptLoginContinues(result) ==
    [pc |-> "find_informed_delivery",
     error_message |-> IF result THEN "None" ELSE "Login failed"]

\* run after attempt_login returned
AfterAttemptLogin(result) ==
    IF result THEN [pc |-> "find_informed_delivery", error_message |-> "None"]
    ELSE [pc |-> "finally", error_message |-> "Login failed"]

\* run after find_informed_delivery returned
AfterFindInformedDelivery(result) ==
    IF result THEN [pc |-> "check_mail_images", error_message |-> "None"]
    ELSE [pc |-> "finally", error_message |-> "Could not access Informed Delivery"]

BoolName(b) == IF b THEN "True" ELSE "False"

\* attempt_login: one call of its script
AttemptLogin ==
    /\ pc = "attempt_login"
    /\ LET script == LoginScript(variant)
           call == script[idx]
       IN  \E ok \in BOOLEAN, login_check \in LoginCheckAnswers :
            /\ Performed(call)
            /\ IF ~ok
               THEN /\ pc' = AfterAttemptLogin(AttemptLoginExcept).pc
                    /\ error_message' = AfterAttemptLogin(AttemptLoginExcept).error_message
                    /\ idx' = 1
                    /\ loginCheck' = loginCheck
                    /\ steps' = [steps EXCEPT !["attempt_login"] = BoolName(AttemptLoginExcept)]
               ELSE IF idx < Len(script)
               THEN /\ pc' = pc
                    /\ idx' = idx + 1
                    /\ error_message' = error_message
                    /\ loginCheck' = loginCheck
                    /\ steps' = [steps EXCEPT !["attempt_login"] = "running"]
               ELSE /\ pc' = AfterAttemptLogin(AttemptLoginReturn(login_check)).pc
                    /\ error_message' =
                           AfterAttemptLogin(AttemptLoginReturn(login_check)).error_message
                    /\ idx' = 1
                    /\ loginCheck' = login_check
                    /\ steps' = [steps EXCEPT !["attempt_login"] =
                                    BoolName(AttemptLoginReturn(login_check))]
    /\ UNCHANGED <<constVars, analysisLog, shotVars, handlerVars, sessionVars, success, imgVars, persistVars, logVars,
                   lastDecision,
                   putCalled, persisted, fallbackTried>>

\* find_informed_delivery: one call of its script
FindInformedDelivery ==
    /\ pc = "find_informed_delivery"
    /\ LET script == FidScript(variant)
           call == script[idx]
       IN  \E ok \in BOOLEAN :
            /\ Performed(call)
            /\ IF ~ok
               THEN /\ pc' = AfterFindInformedDelivery(FALSE).pc
                    /\ error_message' = AfterFindInformedDelivery(FALSE).error_message
                    /\ idx' = 1
                    /\ steps' = [steps EXCEPT !["find_informed_delivery"] = "False"]
               ELSE IF idx < Len(script)
               THEN /\ pc' = pc
                    /\ idx' = idx + 1
                    /\ error_message' = error_message
                    /\ steps' = [steps EXCEPT !["find_informed_delivery"] = "running"]
               ELSE /\ pc' = AfterFindInformedDelivery(TRUE).pc
                    /\ error_message' = AfterFindInformedDelivery(TRUE).error_message
                    /\ idx' = 1
                    /\ steps' = [steps EXCEPT !["find_informed_delivery"] = "True"]
    /\ UNCHANGED <<constVars, analysisLog, shotVars, handlerVars, sessionVars, success, imgVars, persistVars, logVars,
                   loginCheck, lastDecision,
                   putCalled, persisted, fallbackTried>>

(***************************************************************************)
(* check_mail_images (local script, Lambda function, MailImageExtractor).  *)
(***************************************************************************)

\* a faulty run: success only when a file had been persisted
AfterCheckMailImagesNeedsFiles ==
    IF variant = "extractor" THEN [pc |-> "done", success |-> success]
    ELSE [pc |-> "finally", success |-> files /= << >>]

\* a faulty run: only the local script sets success
AfterCheckMailImagesLambdaForgets ==
    IF variant = "extractor" THEN [pc |-> "done", success |-> success]
    ELSE [pc |-> "finally", success |-> variant = "local"]

\* run after check_mail_images returned: success = True, then the finally
\* clause; MailImageExtractor.check_mail_images has no caller here
AfterCheckMailImages ==
    IF variant = "extractor" THEN [pc |-> "done", success |-> success]
    ELSE [pc |-> "finally", success |-> TRUE]

CmiGoto(p) ==
    /\ pc' = p
    /\ success' = success
    /\ steps' = [steps EXCEPT !["check_mail_images"] = "running"]

\* check_mail_images returns its list (also from its outer except clause)
CmiReturn ==
    /\ pc' = AfterCheckMailImages.pc
    /\ success' = AfterCheckMailImages.success
    /\ steps' = [steps EXCEPT !["check_mail_images"] = "returned"]

NextSelector ==
    IF selIdx < Len(selectors)
    THEN CmiGoto("cmi_query") /\ selIdx' = selIdx + 1
    ELSE CmiGoto("cmi_dedupe") /\ selIdx' = selIdx

\* a faulty loop: an image that gave no file is processed again
NextImageRetried(fs) ==
    /\ shotAttempt' = 0
    /\ IF fs = files
       THEN CmiGoto("cmi_process") /\ imgIdx' = imgIdx
       ELSE IF imgIdx < Len(unique_images)
       THEN CmiGoto("cmi_process") /\ imgIdx' = imgIdx + 1
       ELSE /\ imgIdx' = imgIdx
            /\ IF fs = <<>> THEN CmiGoto("cmi_fallback") ELSE CmiReturn

\* the end of one iteration of the "Process each image" loop, the list being fs
NextImageOrFallback(fs) ==
    /\ shotAttempt' = 0
    /\ IF imgIdx < Len(unique_images)
       THEN CmiGoto("cmi_process") /\ imgIdx' = imgIdx + 1
       ELSE /\ imgIdx' = imgIdx
            /\ IF fs = <<>> THEN CmiGoto("cmi_fallback") ELSE CmiReturn

\* the mail check instruction; the browser then shows some page
MailCheck ==
    /\ pc = "check_mail_images"
    /\ \E ok \in BOOLEAN, p \in Pages :
        /\ Performed(Call("act", MailCheckInstruction))
        /\ IF ok
           THEN /\ page' = p
                /\ CmiGoto("cmi_query")
           ELSE /\ page' = page
                /\ CmiReturn
    /\ selIdx' = 1
    /\ all_images' = <<>>
    /\ UNCHANGED <<constVars, analysisLog, shotVars, handlerVars, idx, sessionVars, error_message, images, imgIdx,
                   unique_images, shotAttempt, persistVars, logVars, loginCheck,
                   lastDecision,
                   putCalled, persisted, fallbackTried>>

\* the Lambda function takes every image a selector matches; the local script
\* and MailImageExtractor analyse each one first
AnalysesImages(v) == v /= "lambda"

\* page.query_selector_all(selector)
QueryImages ==
    /\ pc = "cmi_query"
    /\ \E ok \in BOOLEAN :
        /\ Performed(Call("query_selector_all", ""))
        /\ IF ~ok
           THEN /\ CmiReturn
                /\ UNCHANGED <<images, imgIdx, all_images, selIdx>>
           ELSE LET found == QuerySelectorAll(page, selIdx)
                IN  /\ images' = found
                    /\ imgIdx' = 1
                    /\ IF AnalysesImages(variant)
                       THEN /\ all_images' = all_images
                            /\ IF found /= <<>>
                               THEN CmiGoto("cmi_analyze") /\ selIdx' = selIdx
                               ELSE NextSelector
                       ELSE /\ all_images' = all_images \o found
                            /\ NextSelector
    /\ UNCHANGED <<constVars, analysisLog, shotVars, handlerVars, idx, sessionVars, error_message, page, unique_images,
                   shotAttempt, persistVars, logVars, loginCheck, lastDecision,
                   putCalled, persisted, fallbackTried>>

\* _should_include_image: the keyword filter, then the agent's analysis
ShouldIncludeImage(img, analysis_result) ==
    IF IsUiElement(img) THEN FALSE ELSE HasAddressOf[analysis_result]

AnalysisRaises == {"get_attribute raises", "act raises"}

\* a faulty except clause: an image whose analysis raised is left out
AnalysisOutcomeFailClosed(img, outcome) ==
    IF outcome = "get_attribute raises" THEN [acted |-> FALSE, include |-> FALSE]
    ELSE IF IsUiElement(img) THEN [acted |-> FALSE, include |-> FALSE]
    ELSE IF outcome = "act raises" THEN [acted |-> TRUE, include |-> FALSE]
    ELSE [acted |-> TRUE, include |-> ShouldIncludeImage(img, outcome)]

\* one iteration of the analysis loop: outcome is the agent's answer, or which
\* call raised.  An exception includes the image ("to be safe").
AnalysisOutcome(img, outcome) ==
    IF outcome = "get_attribute raises" THEN [acted |-> FALSE, include |-> TRUE]
    ELSE IF IsUiElement(img) THEN [acted |-> FALSE, include |-> FALSE]
    ELSE IF outcome = "act raises" THEN [acted |-> TRUE, include |-> TRUE]
    ELSE [acted |-> TRUE, include |-> ShouldIncludeImage(img, outcome)]

AnalyzeImage ==
    /\ pc = "cmi_analyze"
    /\ LET img == images[imgIdx]
       IN  \E outcome \in AnalysisRaises \cup AnalysisAnswers :
            LET r == AnalysisOutcome(img, outcome)
            IN  /\ Performed(Call(IF r.acted THEN "act" ELSE "get_attribute",
                                  AnalysisInstruction))
                \* act is not called, and cannot raise, for a UI element
                /\ analysisLog' =
                       Append(analysisLog,
                              [elem |-> img,
                               raised |-> \/ outcome = "get_attribute raises"
                                          \/ r.acted /\ outcome = "act raises"])
                /\ all_images' = (IF r.include THEN Append(all_images, img) ELSE all_images)
                /\ lastDecision' =
                       (IF r.acted /\ outcome \in AnalysisAnswers
                        THEN [elem |-> img, answer |-> outcome, included |-> r.include]
                        ELSE lastDecision)
    /\ IF imgIdx < Len(images)
       THEN CmiGoto("cmi_analyze") /\ imgIdx' = imgIdx + 1 /\ selIdx' = selIdx
       ELSE NextSelector /\ imgIdx' = imgIdx
    /\ UNCHANGED <<constVars, shotVars, handlerVars, idx, sessionVars, error_message, page,
                   images, unique_images, shotAttempt, persistVars, logVars, loginCheck,
                   putCalled, persisted, fallbackTried>>

\* the "Remove duplicates" loop; get_attribute raising ends check_mail_images
\* in its outer except clause
Dedupe ==
    /\ pc = "cmi_dedupe"
    /\ \E ok \in BOOLEAN :
        /\ (~ok) => all_images /= <<>>
        /\ IF all_images /= <<>>
           THEN Performed(Call("get_attribute", "src"))
           ELSE UNCHANGED <<actLog, opOutside>>
        /\ IF ~ok
           THEN /\ CmiReturn
                /\ UNCHANGED <<unique_images, imgIdx>>
           ELSE /\ unique_images' = RemoveDuplicates(all_images, {})
                /\ imgIdx' = 1
                /\ IF unique_images' /= <<>>
                   THEN CmiGoto("cmi_process")
                   ELSE CmiGoto("cmi_fallback")
    /\ shotAttempt' = 0
    /\ lastDecision' = NoDecision
    /\ analysisLog' = <<>>
    /\ UNCHANGED <<constVars, shotVars, handlerVars, idx, sessionVars, error_message, page,
                   selIdx, images, all_images, persistVars, logVars, loginCheck,
                   putCalled, persisted, fallbackTried>>

(***************************************************************************)
(* Screenshots and persistence.                                            *)
(***************************************************************************)
\* range(3) of _upload_to_s3 / upload_file
UploadAttempts == 3
\* max_retries of _take_image_screenshot and _take_fallback_screenshot
max_retries == 3

\* what datetime.now().strftime('%Y%m%d_%H%M%S') may give: two images of a
\* run may be processed within the same second
Timestamps == {"20250101_090000", "20250101_090001"}

\* f"{stem}_{timestamp}.png"
FileName(stem, timestamp) == stem \o "_" \o timestamp \o ".png"

\* a faulty name: the sequence number is left out
ImageFileUnnumbered(k, img, timestamp) ==
    [kind |-> "mail_image", seq |-> k, elem |-> img,
     name |-> FileName("mail_image", timestamp)]

\* the file of the k-th image: f"mail_image_{i+1}_{timestamp}.png"
ImageFile(k, img, timestamp) ==
    [kind |-> "mail_image", seq |-> k, elem |-> img,
     name |-> FileName("mail_image_" \o ToString(k), timestamp)]

\* f"mail_preview_full_{timestamp}.png"
FullPageFile(timestamp) ==
    [kind |-> "mail_preview_full", seq |-> 0, elem |-> 0,
     name |-> FileName("mail_preview_full", timestamp)]

\* the call of _upload_to_s3 / upload_file / _save_to_file begins
BeginPersist(from) ==
    /\ pc' = "persist"
    /\ uploadFrom' = from
    /\ attempt' = 0
    /\ putLog' = <<>>
    /\ uploadResult' = "running"
    /\ success' = success
    /\ steps' = [steps EXCEPT !["check_mail_images"] = "running"]

\* "Process each image", local script and Lambda function: get_attribute,
\* then the element's screenshot; an exception goes on to the next image
ProcessImage ==
    /\ pc = "cmi_process"
    /\ variant \in RunVariants
    /\ \E outcome \in {"get_attribute raises", "screenshot raises", "screenshot"} :
        /\ Performed(Call(IF outcome = "get_attribute raises"
                          THEN "get_attribute" ELSE "screenshot", ""))
        /\ IF outcome = "screenshot"
           THEN /\ BeginPersist("image")
                /\ UNCHANGED <<imgIdx, shotAttempt, files>>
           ELSE /\ NextImageOrFallback(files)
                /\ UNCHANGED persistVars
    /\ UNCHANGED <<constVars, analysisLog, shotVars, handlerVars, idx, sessionVars, error_message, page, selIdx, images,
                   all_images, unique_images, logVars, loginCheck, lastDecision,
                   putCalled, persisted, fallbackTried>>

\* _process_single_image up to the screenshot: get_attribute, then
\* _wait_for_image_load, which swallows its exceptions
ProcessSingleImage ==
    /\ pc = "cmi_process"
    /\ variant = "extractor"
    /\ \E outcome \in {"get_attribute raises", "ok"} :
        /\ Performed(Call(IF outcome = "ok" THEN "wait" ELSE "get_attribute", "2000"))
        /\ IF outcome = "ok"
           THEN /\ CmiGoto("take_image_screenshot")
                /\ shotAttempt' = 0
                /\ imgIdx' = imgIdx
                /\ shotResult' = "running"
           ELSE /\ NextImageOrFallback(files)
                /\ shotResult' = "none"
    /\ shotLog' = <<>>
    /\ UNCHANGED <<constVars, analysisLog, handlerVars, idx, sessionVars, error_message, page, selIdx, images,
                   all_images, unique_images, persistVars, logVars, loginCheck,
                   lastDecision,
                   putCalled, persisted, fallbackTried>>

\* one attempt of a screenshot retry loop: the screenshot is returned, or it
\* raises and the loop waits and goes round again, or it gives up (the last
\* attempt raised, or the wait raised)
ScreenshotStep(att, outcome) ==
    IF outcome = "screenshot" THEN "taken"
    ELSE IF att < max_retries - 1 /\ outcome = "screenshot raises" THEN "retry"
    ELSE "raise"

\* one call a screenshot function makes, and how it ended
ShotCall(call, arg, result) == [call |-> call, arg |-> arg, result |-> result]

\* the except clause of a screenshot retry loop whose wait is ms long:
\* wait_for_timeout(ms) unless this was the last attempt
ExceptCalls(att, waitRaises, ms) ==
    IF att < max_retries - 1
    THEN << ShotCall("wait_for_timeout", ms, IF waitRaises THEN "raised" ELSE "returned") >>
    ELSE << >>

\* the calls of one attempt of a screenshot retry loop, the screenshot being
\* given timeout
ScreenshotCalls(att, outcome, timeout, ms) ==
    IF outcome = "screenshot"
    THEN << ShotCall("screenshot", timeout, "returned") >>
    ELSE << ShotCall("screenshot", timeout, "raised") >>
             \o ExceptCalls(att, outcome = "screenshot and wait raise", ms)

\* a faulty end: the trailing "return None" is reached after the last failure
TakeImageScreenshotReturnsNone(step) ==
    IF step = "taken" THEN "bytes" ELSE IF step = "retry" THEN "running" ELSE "None"

\* _take_image_screenshot ends with the screenshot's bytes or by raising
TakeImageScreenshotResult(step) ==
    IF step = "taken" THEN "bytes" ELSE IF step = "retry" THEN "running" ELSE "raised"

ScreenshotOutcomes(att) ==
    {"screenshot", "screenshot raises"}
        \cup (IF att < max_retries - 1 THEN {"screenshot and wait raise"} ELSE {})

\* _take_image_screenshot, then the upload
TakeImageScreenshot ==
    /\ pc = "take_image_screenshot"
    /\ \E outcome \in ScreenshotOutcomes(shotAttempt) :
        /\ Performed(Call("screenshot", ""))
        /\ LET r == ScreenshotStep(shotAttempt, outcome)
           IN  IF r = "taken"
               THEN /\ BeginPersist("image")
                    /\ UNCHANGED <<imgIdx, shotAttempt, files>>
               ELSE IF r = "retry"
               THEN /\ CmiGoto("take_image_screenshot")
                    /\ shotAttempt' = shotAttempt + 1
                    /\ UNCHANGED <<imgIdx, persistVars>>
               ELSE /\ NextImageOrFallback(files)
                    /\ UNCHANGED persistVars
        /\ shotLog' = shotLog \o ScreenshotCalls(shotAttempt, outcome, 60000, 2000)
        /\ shotResult' = TakeImageScreenshotResult(ScreenshotStep(shotAttempt, outcome))
    /\ UNCHANGED <<constVars, analysisLog, handlerVars, idx, sessionVars, error_message, page, selIdx, images,
                   all_images, unique_images, logVars, loginCheck, lastDecision,
                   putCalled, persisted, fallbackTried>>

\* the full page screenshot of the local script and the Lambda function
FallbackScreenshot ==
    /\ pc = "cmi_fallback"
    /\ variant \in RunVariants
    /\ \E ok \in BOOLEAN :
        /\ Performed(Call("screenshot", "full_page"))
        /\ IF ok
           THEN /\ BeginPersist("fallback")
                /\ UNCHANGED files
           ELSE /\ CmiReturn
                /\ UNCHANGED persistVars
    /\ UNCHANGED <<constVars, analysisLog, shotVars, handlerVars, idx, sessionVars, error_message, imgVars, logVars,
                   loginCheck, lastDecision, putCalled, persisted>>
    /\ fallbackTried' = TRUE

\* _take_fallback_screenshot goes on after a screenshot or a retry; what its
\* retry loop raises ends in the outer except clause, and None is returned
TakeFallbackScreenshotResult(step) ==
    IF step = "raise" THEN "None" ELSE "running"

\* _take_fallback_screenshot: the full page screenshot with retries
TakeFallbackScreenshot ==
    /\ pc = "cmi_fallback"
    /\ variant = "extractor"
    /\ \E outcome \in ScreenshotOutcomes(shotAttempt) :
        /\ Performed(Call("screenshot", "full_page"))
        /\ LET r == ScreenshotStep(shotAttempt, outcome)
           IN  IF r = "taken"
               THEN /\ BeginPersist("fallback")
                    /\ UNCHANGED <<shotAttempt, files>>
               ELSE IF r = "retry"
               THEN /\ CmiGoto("cmi_fallback")
                    /\ shotAttempt' = shotAttempt + 1
                    /\ UNCHANGED persistVars
               ELSE /\ CmiReturn
                    /\ UNCHANGED <<shotAttempt, persistVars>>
        /\ shotLog' = (IF shotAttempt = 0 THEN << >> ELSE shotLog)
                           \o ScreenshotCalls(shotAttempt, outcome, 90000, 3000)
        /\ shotResult' = TakeFallbackScreenshotResult(ScreenshotStep(shotAttempt, outcome))
    /\ UNCHANGED <<constVars, analysisLog, handlerVars, idx, sessionVars, error_message, page, selIdx, images,
                   imgIdx, all_images, unique_images, logVars, loginCheck, lastDecision,
                   putCalled, persisted>>
    /\ fallbackTried' = TRUE

\* a faulty list: the file is listed whatever the upload or save returned
ReportedUnconditionally(fs, file, result) == Append(fs, file)

\* if self._upload_to_s3(...): uploaded_files.append(...), and the same with
\* _save_to_file and saved_files
Reported(fs, file, result) == IF result THEN Append(fs, file) ELSE fs

\* after the upload or save returned result: the file is listed if it was
\* persisted, under the name made with the timestamp read for it, and the
\* loop goes on
AfterPersist(result) ==
    \E timestamp \in Timestamps :
        LET file == IF uploadFrom = "image"
                    THEN ImageFile(imgIdx, unique_images[imgIdx], timestamp)
                    ELSE FullPageFile(timestamp)
            fs == Reported(files, file, result)
        IN  /\ files' = fs
            /\ persisted' = (IF result THEN Append(persisted, file.name) ELSE persisted)
            /\ uploadResult' = BoolName(result)
            /\ IF uploadFrom = "image"
               THEN NextImageOrFallback(fs)
               ELSE CmiReturn /\ UNCHANGED <<imgIdx, shotAttempt>>

\* a faulty return: a path whatever the upload callback returned
FallbackReturnAlwaysPath(callback_result) == "path"

\* _take_fallback_screenshot after its upload callback returned: the path when
\* it returned True; otherwise break, and None
FallbackReturn(callback_result) ==
    IF callback_result = "True" THEN "path" ELSE "None"

\* the upload callback of MailImageExtractor returned to the function that
\* called it: _process_single_image, or _take_fallback_screenshot
AfterCallback(callback_result) ==
    IF uploadFrom = "image"
    THEN /\ shotLog' = << >>
         /\ shotResult' = "none"
    ELSE /\ shotLog' = Append(shotLog, ShotCall("upload_callback", 0, callback_result))
         /\ shotResult' = FallbackReturn(callback_result)

\* a faulty retry loop: a successful put_object does not end it
UploadStepKeepsGoing(att, ok) ==
    IF att = 2 THEN [done |-> TRUE, result |-> ok]
    ELSE [done |-> FALSE, result |-> FALSE]

\* one iteration of the retry loop of _upload_to_s3 / upload_file, put_object
\* having returned (ok) or raised
UploadStep(att, ok) ==
    IF ok THEN [done |-> TRUE, result |-> TRUE]
    ELSE IF att = 2 THEN [done |-> TRUE, result |-> FALSE]
    ELSE IF att + 1 < UploadAttempts THEN [done |-> FALSE, result |-> FALSE]
    ELSE [done |-> TRUE, result |-> FALSE]

\* _upload_to_s3 / S3Uploader.upload_file: one put_object call
PutObject ==
    /\ pc = "persist"
    /\ variant /= "local"
    /\ \E ok \in BOOLEAN :
        LET r == UploadStep(attempt, ok)
        IN  /\ putLog' = Append(putLog, ok)
            /\ IF r.done
               THEN /\ AfterPersist(r.result)
                    /\ attempt' = attempt
                    /\ IF variant = "extractor"
                       THEN AfterCallback(BoolName(r.result))
                       ELSE UNCHANGED shotVars
               ELSE /\ attempt' = attempt + 1
                    /\ UNCHANGED <<pc, success, steps, files, uploadResult, imgIdx,
                                   shotAttempt, shotVars, persisted>>
    /\ putCalled' = TRUE
    /\ UNCHANGED <<constVars, analysisLog, handlerVars, idx, sessionVars, error_message, page, selIdx,
                   images, all_images, unique_images, uploadFrom, logVars, actLog,
                   opOutside, loginCheck, lastDecision, fallbackTried>>

\* the upload callback of MailImageExtractor is any callable, and may raise
\* instead of returning.  From _process_single_image the exception reaches
\* the except clause of the image loop; in _take_fallback_screenshot it is
\* caught by the retry loop, as a failed screenshot is
UploadCallbackRaises ==
    /\ pc = "persist"
    /\ variant = "extractor"
    /\ attempt = 0
    /\ uploadResult' = "raised"
    /\ IF uploadFrom = "image"
       THEN /\ NextImageOrFallback(files)
            /\ shotLog' = << >>
            /\ shotResult' = "none"
       ELSE \E waitRaises \in BOOLEAN :
             LET step == ScreenshotStep(shotAttempt,
                                        IF waitRaises THEN "screenshot and wait raise"
                                        ELSE "screenshot raises")
             IN  /\ waitRaises => shotAttempt < max_retries - 1
                 /\ shotLog' = Append(shotLog, ShotCall("upload_callback", 0, "raised"))
                                    \o ExceptCalls(shotAttempt, waitRaises, 3000)
                 /\ shotResult' = TakeFallbackScreenshotResult(step)
                 /\ IF step = "retry"
                    THEN /\ CmiGoto("cmi_fallback")
                         /\ shotAttempt' = shotAttempt + 1
                    ELSE /\ CmiReturn
                         /\ shotAttempt' = shotAttempt
                 /\ imgIdx' = imgIdx
    /\ UNCHANGED <<constVars, analysisLog, handlerVars, idx, sessionVars, error_message, page,
                   selIdx, images, all_images, unique_images, files, attempt, uploadFrom,
                   putLog, logVars, histVars>>

\* _save_to_file: one write, True when it succeeded
SaveToFile ==
    /\ pc = "persist"
    /\ variant = "local"
    /\ \E ok \in BOOLEAN : AfterPersist(ok)
    /\ putCalled' = TRUE
    /\ UNCHANGED <<constVars, analysisLog, shotVars, handlerVars, idx, sessionVars, error_message, page, selIdx,
                   images, all_images, unique_images, attempt, uploadFrom, putLog, logVars,
                   actLog, opOutside, loginCheck, lastDecision, fallbackTried>>

(***************************************************************************)
(* run's finally clause and the persistence of the agent's logs.           *)
(***************************************************************************)
\* a faulty finally clause: the session is stopped only after a success
StopsSessionOnSuccessOnly == nova_act /\ success

\* if self.nova_act:
StopsSession == nova_act

\* the locals of attempt_login, of check_mail_images and of the upload are
\* gone once run is in its finally clause, and so is the page once the session
\* is stopped
LocalsDropped ==
    /\ page' = {}
    /\ selIdx' = 1
    /\ images' = <<>>
    /\ imgIdx' = 1
    /\ all_images' = <<>>
    /\ unique_images' = <<>>
    /\ shotAttempt' = 0
    /\ attempt' = 0
    /\ uploadFrom' = "none"
    /\ putLog' = <<>>
    /\ uploadResult' = "none"
    /\ analysisLog' = <<>>
    /\ loginCheck' = "none"
    /\ lastDecision' = NoDecision

\* finally: nova_act.stop() when the session object exists; what stop raises
\* is swallowed.  The local script then saves the logs.
Finally ==
    /\ pc = "finally"
    /\ \E ok \in BOOLEAN :
        /\ stopCalls' = (IF StopsSession THEN stopCalls + 1 ELSE stopCalls)
        /\ stopRaised' = (StopsSession /\ ~ok)
    /\ pc' = (IF variant = "local" THEN "save_logs" ELSE "done")
    /\ LocalsDropped
    /\ UNCHANGED <<constVars, shotVars, handlerVars, idx, nova_act, started, resultVars,
                   steps, files, logVars, actLog, opOutside, putCalled, persisted,
                   fallbackTried>>

LogContents == {"", "trace"}

\* the files os.walk may find: numbered paths, each with its bytes
LogListings ==
    UNION { { [i \in 1..n |-> [path |-> i, data |-> f[i]]] : f \in [1..n -> LogContents] }
            : n \in 0..MaxLogFiles }

\* self.today, and the local script's output_dir
Today == "2025-01-01"
OutputDir == "mail_images"
\* the bucket S3Uploader is constructed with
Bucket == "usps-mail"

\* the files the agent may leave under its logs directory, by number
LogNames == << "act.log", "session/trace.html", "session/calls.json", "run.log" >>

\* the logs directory: self.logs_dir of the local script, the argument of upload_logs
LogsDirOf(v) == IF v = "local" THEN OutputDir \o "/nova_act_logs" ELSE "/tmp/nova_act_logs"

\* os.path.join(root, file) for the i-th file of the walk
FilePath(dir, i) == dir \o "/" \o LogNames[i]

\* os.path.relpath(path, start), path being under start
RelPath(path, start) == SubSeq(path, Len(start) + 2, Len(path))

\* output_path = os.path.join(logs_output_dir, rel_path)
OutputPath(rel_path) == (OutputDir \o "/" \o Today \o "/logs") \o "/" \o rel_path

\* a faulty key: the logs prefix is left out
S3KeyWithoutPrefix(rel_path) == Today \o "/" \o rel_path

\* s3_key = f"{self.today}/logs/{rel_path}"
S3Key(rel_path) == Today \o "/logs/" \o rel_path

\* where each log file goes: the output path, or the key
LogDestination ==
    [v \in {"local", "uploader"} |->
        [i \in 1..Len(LogNames) |->
            LET rel_path == RelPath(FilePath(LogsDirOf(v), i), LogsDirOf(v))
            IN  IF v = "local" THEN OutputPath(rel_path) ELSE S3Key(rel_path)]]

\* what the returned list names it: the output path, or f"s3://{bucket}/{s3_key}"
LogListed ==
    [v \in {"local", "uploader"} |->
        [i \in 1..Len(LogNames) |->
            IF v = "local" THEN LogDestination[v][i]
            ELSE "s3://" \o Bucket \o "/" \o LogDestination[v][i]]]

\* if os.path.getsize(file_path) == 0: continue
SkipsLogFile(file) == Len(file.data) = 0

\* dst.write(src.read()) / Body=file_data: the bytes written are the bytes read
Stored(v, file) ==
    /\ saved_logs' = Append(saved_logs, LogListed[v][file.path])
    /\ logStore' = logStore \cup {[key |-> LogDestination[v][file.path], data |-> file.data]}

\* a faulty finally clause: what _save_logs_to_file raises leaves run
SaveLogsReraises == [pc |-> "raised"]

\* the try around _save_logs_to_file in the finally clause: what it raises
\* (os.makedirs of the logs output directory) is logged, and run goes on to return
SaveLogsExcept == [pc |-> "done"]

\* a faulty test: the value is compared as it is
SaveLogsCaseSensitive(value) == (IF value = None THEN "true" ELSE value[1]) = "true"

\* os.environ.get('SAVE_LOGS', 'true').lower() == 'true'
SaveLogsEnabled(value) == Lower(IF value = None THEN "true" ELSE value[1]) = "true"

\* save_logs of run's finally clause, for each value of SAVE_LOGS
save_logs == [value \in SaveLogsValues |-> SaveLogsEnabled(value)]

\* the local script's finally clause, second half: SAVE_LOGS is read, then
\* _save_logs_to_file runs up to the listing of the logs directory
SaveLogs ==
    /\ pc = "save_logs"
    /\ SAVE_LOGS' \in SaveLogsValues
    /\ IF ~save_logs[SAVE_LOGS']
       THEN /\ pc' = "done"
            /\ UNCHANGED <<logsAttempted, logFiles, logError>>
       ELSE /\ logsAttempted' = TRUE
            /\ IF logs_dir /= "exists"
               THEN /\ pc' = "done"
                    /\ UNCHANGED <<logFiles, logError>>
               ELSE \E makedirs_ok \in BOOLEAN, listing \in LogListings :
                        /\ logError' = ~makedirs_ok
                        /\ IF ~makedirs_ok
                           THEN pc' = SaveLogsExcept.pc /\ logFiles' = logFiles
                           ELSE IF listing /= <<>>
                           THEN pc' = "copy_log" /\ logFiles' = listing
                           ELSE pc' = "done" /\ logFiles' = logFiles
    /\ logIdx' = 1
    /\ UNCHANGED <<constVars, analysisLog, shotVars, handlerVars, idx, sessionVars, resultVars, steps, imgVars,
                   persistVars, logs_dir, saved_logs, logStore, lastLog, histVars>>

NextLogFile(donePc) ==
    IF logIdx < Len(logFiles)
    THEN pc' = pc /\ logIdx' = logIdx + 1
    ELSE pc' = donePc /\ logIdx' = logIdx

\* _save_logs_to_file: one file of the walk.  getsize and makedirs are outside
\* the inner try: what they raise ends the walk in the outer except clause.
CopyLogFile ==
    /\ pc = "copy_log"
    /\ LET file == logFiles[logIdx]
       IN  \E outcome \in {"getsize raises", "makedirs raises", "copy raises", "copied"} :
            IF outcome = "getsize raises"
            THEN pc' = "done" /\ logError' = TRUE /\ UNCHANGED <<logIdx, saved_logs, logStore>>
            ELSE IF SkipsLogFile(file)
            THEN NextLogFile("done") /\ UNCHANGED <<saved_logs, logStore, logError>>
            ELSE IF outcome = "makedirs raises"
            THEN pc' = "done" /\ logError' = TRUE /\ UNCHANGED <<logIdx, saved_logs, logStore>>
            ELSE /\ NextLogFile("done")
                 /\ IF outcome = "copied"
                    THEN Stored(variant, file) /\ logError' = logError
                    ELSE logError' = TRUE /\ UNCHANGED <<saved_logs, logStore>>
    /\ UNCHANGED <<constVars, analysisLog, shotVars, handlerVars, idx, sessionVars, resultVars, steps, imgVars,
                   persistVars, SAVE_LOGS, logs_dir, logFiles, logsAttempted, lastLog,
                   histVars>>

\* S3Uploader.upload_logs up to the listing of the logs directory
UploadLogs ==
    /\ pc = "upload_logs"
    /\ logsAttempted' = TRUE
    /\ \E exists \in BOOLEAN, listing \in LogListings :
        /\ logs_dir' = (IF exists THEN "exists" ELSE "missing")
        /\ IF exists /\ listing /= <<>>
           THEN pc' = "upload_log" /\ logFiles' = listing
           ELSE pc' = "done" /\ logFiles' = logFiles
    /\ logIdx' = 1
    /\ UNCHANGED <<constVars, analysisLog, shotVars, handlerVars, idx, sessionVars, resultVars, steps, imgVars,
                   persistVars, SAVE_LOGS, saved_logs, logStore, logError, lastLog,
                   histVars>>

\* S3Uploader.upload_logs: one file of the walk; put_object is called once.
\* getsize is outside the inner try: what it raises ends the walk.
UploadLogFile ==
    /\ pc = "upload_log"
    /\ LET file == logFiles[logIdx]
       IN  \E outcome \in {"getsize raises", "read raises", "put_object raises", "uploaded"} :
            IF outcome = "getsize raises"
            THEN /\ pc' = "done"
                 /\ logError' = TRUE
                 /\ UNCHANGED <<logIdx, saved_logs, logStore, lastLog>>
            ELSE IF SkipsLogFile(file)
            THEN NextLogFile("done") /\ UNCHANGED <<saved_logs, logStore, logError, lastLog>>
            ELSE /\ NextLogFile("done")
                 /\ IF outcome = "uploaded"
                    THEN Stored(variant, file) /\ logError' = logError
                    ELSE logError' = TRUE /\ UNCHANGED <<saved_logs, logStore>>
                 /\ lastLog' = [path |-> file.path,
                                calls |-> IF outcome = "read raises" THEN 0 ELSE 1,
                                ok |-> outcome = "uploaded"]
    /\ UNCHANGED <<constVars, analysisLog, shotVars, handlerVars, idx, sessionVars, resultVars, steps, imgVars,
                   persistVars, SAVE_LOGS, logs_dir, logFiles, logsAttempted, histVars>>

\* the dictionary run returns
ResultDictionary ==
    IF variant = "lambda"
    THEN [success            |-> success,
          images_downloaded  |-> Len(files),
          s3_uploads         |-> Len(files),
          uploaded_files     |-> files,
          error_message      |-> error_message,
          date               |-> Today,
          method             |-> "nova_act"]
    ELSE [success            |-> success,
          images_downloaded  |-> Len(files),
          files_saved        |-> Len(files),
          saved_files        |-> files,
          saved_logs         |-> saved_logs,
          logs_saved         |-> Len(saved_logs),
          error_message      |-> error_message,
          date               |-> Today,
          method             |-> "nova_act_local"]

Next ==
    \/ LambdaHandler
    \/ GetCredentials
    \/ LambdaHandlerReturn
    \/ InitializeNovaAct
    \/ StartAndNavigate
    \/ AttemptLogin
    \/ FindInformedDelivery
    \/ MailCheck
    \/ QueryImages
    \/ AnalyzeImage
    \/ Dedupe
    \/ ProcessImage
    \/ ProcessSingleImage
    \/ TakeImageScreenshot
    \/ FallbackScreenshot
    \/ TakeFallbackScreenshot
    \/ PutObject
    \/ UploadCallbackRaises
    \/ SaveToFile
    \/ Finally
    \/ SaveLogs
    \/ CopyLogFile
    \/ UploadLogs
    \/ UploadLogFile

Spec == Init /\ [][Next]_vars

\* every step is a blocking call of a single thread; when each call returns or
\* raises, the step after it is taken
LiveSpec == Init /\ [][Next]_vars /\ WF_vars(Next)

(***************************************************************************)
(* Properties.                                                             *)
(***************************************************************************)
AfterFinally == {"save_logs", "copy_log", "done", "responded"}

\* C1: in a run of either automator, stop() has been called exactly once when
\* run returns if the NovaAct object was created (on every path), it is never
\* called twice, and it is called in the finally clause only.
C1_StopExactlyOnce ==
    variant \in RunVariants =>
        /\ stopCalls <= 1
        /\ (stopCalls = 1) <=> (nova_act /\ pc \in AfterFinally)
        /\ (pc = "done" /\ nova_act) => stopCalls = 1

\* a run in which start_and_navigate raised has returned with the session stopped
C1_Witness ==
    /\ variant \in RunVariants
    /\ pc = "done"
    /\ steps["start_and_navigate"] = "raised"
    /\ nova_act
    /\ stopCalls = 1

\* C2: every run of either automator has attempted to persist the agent's logs
\* when it returns.
C2_LogsAlwaysAttempted ==
    (variant \in RunVariants /\ pc = "done") => logsAttempted

AllFalse(log) == \A i \in 1..Len(log) : ~log[i]

\* C3: an upload of _upload_to_s3 / upload_file calls put_object at most 3
\* times, makes no call after one that succeeded, returns True exactly when a
\* call succeeded and returns False after 3 failed calls.
C3_UploadRetry ==
    variant \in {"lambda", "extractor"} =>
        /\ Len(putLog) <= 3
        /\ \A i \in 1..(Len(putLog) - 1) : ~putLog[i]
        /\ uploadResult = "True" => (putLog /= <<>> /\ putLog[Len(putLog)])
        /\ uploadResult = "False" => (Len(putLog) = 3 /\ AllFalse(putLog))
        /\ uploadResult = "running" => (AllFalse(putLog) /\ Len(putLog) < 3)
        /\ uploadResult = "none" => putLog = <<>>

\* an upload has returned True on its third put_object call
C3_Witness ==
    /\ variant = "lambda"
    /\ uploadResult = "True"
    /\ putLog = <<FALSE, FALSE, TRUE>>

\* C4: a log file whose put_object call failed has been attempted again before
\* upload_logs gives it up.
C4_LogUploadRetried ==
    (lastLog.path /= 0 /\ ~lastLog.ok /\ lastLog.calls >= 1) => lastLog.calls >= 2

\* C5: in a run of either automator no call is made on the agent, the page or
\* an element before start() has returned or after stop() has been called.
C5_OpsWithinSession ==
    variant \in RunVariants => ~opOutside

\* a run has issued instructions, stopped the session and returned
C5_Witness ==
    /\ variant \in RunVariants
    /\ pc = "done"
    /\ stopCalls = 1
    /\ Len(actLog) > 2

\* C6: once attempt_login has returned False, neither find_informed_delivery
\* nor check_mail_images is called, nothing is persisted and the result is
\* success False with 'Login failed'; once find_informed_delivery has returned
\* False, check_mail_images is not called, nothing is persisted and the result
\* is success False with 'Could not access Informed Delivery'.
C6_FailedStepStopsPipeline ==
    variant \in RunVariants =>
        /\ steps["attempt_login"] = "False" =>
               /\ steps["find_informed_delivery"] = "not called"
               /\ steps["check_mail_images"] = "not called"
               /\ files = <<>>
               /\ ~success
               /\ error_message = "Login failed"
               /\ pc \in {"finally"} \cup AfterFinally
        /\ steps["find_informed_delivery"] = "False" =>
               /\ steps["check_mail_images"] = "not called"
               /\ files = <<>>
               /\ ~success
               /\ error_message = "Could not access Informed Delivery"
               /\ pc \in {"finally"} \cup AfterFinally

\* a run in which attempt_login returned False has returned
C6_Witness ==
    /\ variant \in RunVariants
    /\ pc = "done"
    /\ steps["attempt_login"] = "False"
    /\ error_message = "Login failed"

\* C7: when the agent's login check reports that the login was not successful,
\* attempt_login returns False and find_informed_delivery is not called.
C7_LoginResultInspected ==
    loginCheck = "login was not successful: error message shown" =>
        /\ steps["attempt_login"] = "False"
        /\ steps["find_informed_delivery"] = "not called"

\* C8: no mail_image_* file persisted by check_mail_images, in the local
\* script, the Lambda function or MailImageExtractor, is the screenshot of an
\* element whose src or alt contains a skip keyword.
C8_UiImagesNeverPersisted ==
    \A i \in 1..Len(files) :
        files[i].kind = "mail_image" => ~IsUiElement(files[i].elem)

\* C9: an image the agent answered 'NO_ADDRESS' for is not included, and an
\* image is included only when the answer indicates 'HAS_ADDRESS'.
C9_NoAddressExcluded ==
    /\ lastDecision.answer = "NO_ADDRESS" => ~lastDecision.included
    /\ lastDecision.included => Contains(Upper(lastDecision.answer), "HAS_ADDRESS")

OtherVariant(v) == IF v = "local" THEN "lambda" ELSE "local"

\* the instructions a variant has issued when the mail check has returned and
\* every call before it returned
ActsUpToMailCheck(v) ==
    ActsOf(StartScript(v) \o LoginScript(v) \o FidScript(v)) \o <<MailCheckInstruction>>

\* C10 as stated: with every call returning, each automator has issued, up to
\* the mail check, the instructions the other one issues.
C10_SameInstructions ==
    (variant \in RunVariants /\ pc = "cmi_query" /\ selIdx = 1) =>
        actLog = ActsUpToMailCheck(OtherVariant(variant))

\* success and error_message of run as a function of how its methods ended,
\* the same for both automators
RunResult(st, e) ==
    IF st["initialize_nova_act"] = "raised" \/ st["start_and_navigate"] = "raised"
    THEN [success |-> FALSE, error_message |-> Str(e)]
    ELSE IF st["attempt_login"] = "False"
    THEN [success |-> FALSE, error_message |-> "Login failed"]
    ELSE IF st["find_informed_delivery"] = "False"
    THEN [success |-> FALSE, error_message |-> "Could not access Informed Delivery"]
    ELSE [success |-> TRUE, error_message |-> "None"]

\* the instructions of attempt_login, the same for both automators
LoginActs == ActsOf(LoginCore) \o <<"check if the login was successful">>

\* C10 as amended: both automators return the success flag and error_message
\* that the same function gives for the way their methods ended, and both issue
\* the same instructions in attempt_login and for the mail check.
C10_SameRunSkeleton ==
    variant \in RunVariants =>
        /\ pc = "done" =>
               \E e \in Exceptions :
                   [success |-> success, error_message |-> error_message]
                       = RunResult(steps, e)
        /\ steps["attempt_login"] = "True" =>
               \E k \in 0..(Len(actLog) - Len(LoginActs)) :
                   SubSeq(actLog, k + 1, k + Len(LoginActs)) = LoginActs
        /\ (pc = "cmi_query" /\ selIdx = 1) => actLog[Len(actLog)] = MailCheckInstruction

\* the Lambda function has returned success with an image uploaded
C10_Witness ==
    /\ variant = "lambda"
    /\ pc = "done"
    /\ success
    /\ \E i \in 1..Len(files) : files[i].kind = "mail_image"

\* C11: in the Lambda function the secret has been fetched before the NovaAct
\* object is created, the session started, an instruction issued or anything
\* stored; when the retrieval of the credentials raised, no NovaAct object
\* exists, no session was started, nothing was stored, and lambda_handler has
\* returned statusCode 500 with success false.
C11_CredentialsBeforeSession ==
    variant = "lambda" =>
        /\ (nova_act \/ started \/ putCalled \/ actLog /= <<>>
               \/ steps["initialize_nova_act"] /= "not called")
              => credentials = "fetched"
        /\ credentials = "raised" =>
               /\ ~nova_act
               /\ ~started
               /\ ~putCalled
               /\ files = <<>>
               /\ pc = "responded"
               /\ response = [statusCode |-> 500, success |-> FALSE]

\* the retrieval of the credentials raised and lambda_handler has returned
C11_Witness ==
    /\ variant = "lambda"
    /\ credentials = "raised"
    /\ pc = "responded"
    /\ response.statusCode = 500

\* C12: the file of the k-th image of the de-duplicated list is named
\* mail_image_<k>_<timestamp>.png, and the per-image files persisted in one
\* call of check_mail_images have pairwise distinct sequence numbers and
\* pairwise distinct names, so none overwrites another.
C12_NamedBySequenceNumber ==
    /\ \A i \in 1..Len(files) :
           files[i].kind = "mail_image" =>
               /\ \E t \in Timestamps :
                      files[i].name = "mail_image_" \o ToString(files[i].seq)
                                          \o "_" \o t \o ".png"
               /\ (pc \notin AfterFinally \/ variant = "extractor") =>
                      /\ files[i].seq \in 1..Len(unique_images)
                      /\ files[i].elem = unique_images[files[i].seq]
    /\ \A i, j \in 1..Len(files) :
           i < j => /\ files[i].seq /= files[j].seq
                    /\ files[i].name /= files[j].name

\* two images have been persisted within the same second
C12_Witness ==
    /\ Len(files) = 2
    /\ files[1].name = "mail_image_1_20250101_090000.png"
    /\ files[2].name = "mail_image_2_20250101_090000.png"

LogVariants == {"local", "uploader"}

\* where the claim places the copy of the i-th log file
ExpectedLogDestination ==
    [v \in LogVariants |->
        [i \in 1..Len(LogNames) |->
            IF v = "local" THEN "mail_images/2025-01-01/logs/" \o LogNames[i]
            ELSE "2025-01-01/logs/" \o LogNames[i]]]

CopyOf(v, file) == [key |-> ExpectedLogDestination[v][file.path], data |-> file.data]

C14_HandlerAlwaysResponds ==
    variant = "lambda" =>
        /\ pc /= "raised"
        /\ pc /= "responded" => (ENABLED Next /\ response = NoResponse)
        /\ pc = "responded" =>
               /\ response.statusCode \in {200, 500}
               /\ response.statusCode = 200 <=>
                      (steps["check_mail_images"] = "returned" /\ success)
               /\ response.success = success
        /\ (s3_bucket \in {None, <<"">>} \/ secret_name \in {None, <<"">>}) =>
               /\ pc \in {"lambda_handler", "responded"}
               /\ credentials = "none"
               /\ ~nova_act
               /\ ~started
               /\ steps["initialize_nova_act"] = "not called"
               /\ pc = "responded" => response.statusCode = 500

\* lambda_handler has returned 200 after a run that uploaded a file
C14_Witness ==
    /\ variant = "lambda"
    /\ pc = "responded"
    /\ response = [statusCode |-> 200, success |-> TRUE]
    /\ files /= <<>>

\* C15: whenever check_mail_images has returned with no per-image file
\* persisted, whatever the reason, the full page screenshot has been attempted.
C15_FallbackAlwaysAttempted ==
    (/\ steps["check_mail_images"] = "returned"
     /\ \A i \in 1..Len(files) : files[i].kind /= "mail_image")
        => fallbackTried

\* C16: once the image loop of check_mail_images is over, every image of the
\* de-duplicated list has been processed, whatever was raised for the earlier
\* ones; and once the log persistence has returned, every log file of the
\* walk has been handled, whatever failed for the earlier ones.
C16_ErrorsDoNotStopTheOthers ==
    /\ (/\ unique_images /= <<>>
        /\ \/ pc = "cmi_fallback"
           \/ steps["check_mail_images"] = "returned")
          => imgIdx = Len(unique_images)
    /\ (variant \in LogVariants /\ pc = "done" /\ logFiles /= <<>>)
          => logIdx = Len(logFiles)

\* C17: run of either automator does not raise, whatever NovaAct, start, act,
\* the page operations, persistence, stop and log saving raise: it goes on
\* until it returns, and what it returns is a dictionary with success,
\* images_downloaded, error_message, date and method.
C17_RunNeverRaises ==
    variant \in RunVariants =>
        /\ pc /= "raised"
        /\ pc \notin {"done", "responded"} => ENABLED Next
        /\ pc = "done" =>
               /\ {"success", "images_downloaded", "error_message", "date", "method"}
                      \subseteq DOMAIN ResultDictionary
               /\ ResultDictionary.success \in BOOLEAN
               /\ ResultDictionary.success = (steps["check_mail_images"] = "returned")
               /\ ResultDictionary.images_downloaded \in 0..(MaxImages + 1)
               /\ ResultDictionary.error_message \in
                      {"None", "Login failed", "Could not access Informed Delivery"}
                          \cup { Str(e) : e \in Exceptions }
               /\ ResultDictionary.date = "2025-01-01"
               /\ ResultDictionary.method \in {"nova_act", "nova_act_local"}

\* the local run has returned after start raised and log saving raised
C17_Witness ==
    /\ variant = "local"
    /\ pc = "done"
    /\ steps["start_and_navigate"] = "raised"
    /\ logError
    /\ ResultDictionary.error_message \in { Str(e) : e \in Exceptions }
    /\ ~ResultDictionary.success

\* the spellings of 'true' that differ in case only
TrueSpellings == {"true", "True", "TRUE"}

\* C18: in the local script log saving is attempted only after the stop()
\* attempt; once the finally clause is past the SAVE_LOGS test, log saving has
\* been attempted, whether stop() raised or not and whether the NovaAct object
\* exists or not, unless SAVE_LOGS is set to something other than 'true' in
\* any case, and then it has not been attempted.
C18_CleanupOrderedAndIndependent ==
    variant = "local" =>
        /\ logsAttempted =>
               /\ pc \in {"copy_log", "done"}
               /\ nova_act => stopCalls = 1
        /\ pc \in {"copy_log", "done"} =>
               (~logsAttempted <=>
                    (SAVE_LOGS /= None /\ SAVE_LOGS[1] \notin TrueSpellings))

\* log saving has been attempted after stop() raised, SAVE_LOGS being 'True'
C18_Witness ==
    /\ variant = "local"
    /\ pc = "done"
    /\ stopRaised
    /\ SAVE_LOGS = <<"True">>
    /\ logsAttempted

SrcOf(e) == ImageElems[e].src

\* the first position of src among the srcs of imgs
FirstWithSrc(imgs, src) ==
    CHOOSE k \in 1..Len(imgs) :
        SrcOf(imgs[k]) = src /\ \A m \in 1..(k - 1) : SrcOf(imgs[m]) /= src

\* C19: the list check_mail_images processes has no two elements with the same
\* src and no element whose src is missing or empty, it has an element for
\* every distinct non-empty src of the list it was made from, and its elements
\* are the first occurrences of their srcs, in the order of that list.
C19_DuplicatesRemovedBySrc ==
    pc \in {"cmi_process", "take_image_screenshot", "persist", "cmi_fallback"} =>
        /\ \A i, j \in 1..Len(unique_images) :
               i < j => SrcOf(unique_images[i]) /= SrcOf(unique_images[j])
        /\ \A i \in 1..Len(unique_images) :
               SrcOf(unique_images[i]) \notin {None, <<"">>}
        /\ { SrcOf(unique_images[i]) : i \in 1..Len(unique_images) }
               = { SrcOf(all_images[k]) : k \in 1..Len(all_images) } \ {None, <<"">>}
        /\ \A i \in 1..Len(unique_images) :
               unique_images[i]
                   = all_images[FirstWithSrc(all_images, SrcOf(unique_images[i]))]
        /\ \A i, j \in 1..Len(unique_images) :
               i < j => FirstWithSrc(all_images, SrcOf(unique_images[i]))
                            < FirstWithSrc(all_images, SrcOf(unique_images[j]))

\* the candidates held one src twice and an element with an empty src; the
\* first occurrence is the only element processed
C19_Witness ==
    /\ pc = "cmi_process"
    /\ \E i, j \in 1..Len(all_images) :
           /\ i < j
           /\ SrcOf(all_images[i]) = SrcOf(all_images[j])
           /\ unique_images = <<all_images[i]>>
    /\ \E k \in 1..Len(all_images) : SrcOf(all_images[k]) = <<"">>

\* every candidate of the page, selector after selector
AllCandidates(p) ==
    QuerySelectorAll(p, 1) \o QuerySelectorAll(p, 2) \o QuerySelectorAll(p, 3)

\* C20: in the local script and MailImageExtractor, a candidate whose analysis
\* raised (reading its attributes, or the agent's act call) has been added to
\* the candidate list, and the analysis has gone on with the candidates after
\* it: when the analysis is over every candidate of every selector has been
\* analysed, in order.
C20_FailOpenAnalysis ==
    (AnalysesImages(variant) /\ pc \in {"cmi_query", "cmi_analyze", "cmi_dedupe"}) =>
        /\ \A e \in Elems :
               Cardinality({ k \in 1..Len(analysisLog) :
                               analysisLog[k].elem = e /\ analysisLog[k].raised })
                   <= Cardinality({ m \in 1..Len(all_images) : all_images[m] = e })
        /\ Len(analysisLog) <= Len(AllCandidates(page))
        /\ \A k \in 1..Len(analysisLog) : analysisLog[k].elem = AllCandidates(page)[k]
        /\ pc = "cmi_dedupe" => Len(analysisLog) = Len(AllCandidates(page))

\* the analysis is over: the analysis of a UI element raised, a later
\* candidate was analysed without an exception, and the UI element is a candidate
C20_Witness ==
    /\ variant = "local"
    /\ pc = "cmi_dedupe"
    /\ \E k \in 1..(Len(analysisLog) - 1) :
           /\ analysisLog[k].raised
           /\ IsUiElement(analysisLog[k].elem)
           /\ ~analysisLog[k + 1].raised
           /\ \E m \in 1..Len(all_images) : all_images[m] = analysisLog[k].elem

(***************************************************************************)
(* The screenshot retry loops of MailImageExtractor.                       *)
(***************************************************************************)
\* the positions in log of the calls of call
CallsOf(log, call) == { i \in 1..Len(log) : log[i].call = call }

\* the number of screenshots taken up to position i of log
ShotsUpTo(log, i) == Cardinality({ j \in CallsOf(log, "screenshot") : j <= i })

\* the calls logged are those of _take_image_screenshot
InTakeImageScreenshot == variant = "extractor" /\ ~fallbackTried

\* C21: _take_image_screenshot calls img.screenshot at most 3 times; the first
\* screenshot that returns ends it with the bytes; it waits 2000 ms after a
\* failed screenshot exactly when that was not the third one, and the next
\* screenshot follows the wait; after the third failure it raises, and it never
\* ends with None.
C21_ImageScreenshotRetry ==
    InTakeImageScreenshot =>
        /\ shotResult \in {"none", "running", "bytes", "raised"}
        /\ Cardinality(CallsOf(shotLog, "screenshot")) <= 3
        /\ \A i \in CallsOf(shotLog, "screenshot") :
            /\ shotLog[i].result = "returned" => (i = Len(shotLog) /\ shotResult = "bytes")
            /\ (shotLog[i].result = "raised" /\ ShotsUpTo(shotLog, i) < 3) =>
                   (i < Len(shotLog) /\ shotLog[i + 1].call = "wait_for_timeout")
            /\ (shotLog[i].result = "raised" /\ ShotsUpTo(shotLog, i) = 3) =>
                   (i = Len(shotLog) /\ shotResult = "raised")
        /\ \A i \in CallsOf(shotLog, "wait_for_timeout") :
            /\ shotLog[i].arg = 2000
            /\ i > 1
            /\ shotLog[i - 1] = ShotCall("screenshot", 60000, "raised")
            /\ ShotsUpTo(shotLog, i) < 3
            /\ IF shotLog[i].result = "raised"
               THEN i = Len(shotLog) /\ shotResult = "raised"
               ELSE IF i = Len(shotLog) THEN shotResult = "running"
               ELSE shotLog[i + 1].call = "screenshot"
        /\ shotResult = "bytes" =>
               /\ shotLog /= << >>
               /\ shotLog[Len(shotLog)] = ShotCall("screenshot", 60000, "returned")
        /\ shotResult = "raised" =>
               /\ shotLog /= << >>
               /\ shotLog[Len(shotLog)].result = "raised"
        /\ shotResult = "none" <=> shotLog = << >> /\ pc /= "take_image_screenshot"

\* the third screenshot of an image failed after two waits, and
\* _take_image_screenshot raised
C21_Witness ==
    /\ InTakeImageScreenshot
    /\ shotResult = "raised"
    /\ Len(shotLog) = 5
    /\ Cardinality(CallsOf(shotLog, "screenshot")) = 3
    /\ Cardinality(CallsOf(shotLog, "wait_for_timeout")) = 2

\* the calls logged are those of _take_fallback_screenshot
InTakeFallbackScreenshot == variant = "extractor" /\ fallbackTried

\* C22: _take_fallback_screenshot never raises; it takes at most 3 full page
\* screenshots; a further screenshot is taken only after the screenshot or the
\* upload callback before it raised (and the 3000 ms wait returned); an upload
\* callback that returns, True or False, is its last call; it returns the path
\* exactly when the upload callback returned True, and None otherwise.
C22_FallbackScreenshotRetry ==
    InTakeFallbackScreenshot =>
        /\ shotResult \in {"running", "path", "None"}
        /\ (pc = "done") = (shotResult /= "running")
        /\ Cardinality(CallsOf(shotLog, "screenshot")) \in 1..3
        /\ shotLog[1].call = "screenshot"
        /\ \A i \in CallsOf(shotLog, "screenshot") :
            /\ shotLog[i].arg = 90000
            /\ i > 1 =>
                /\ shotLog[i - 1] = ShotCall("wait_for_timeout", 3000, "returned")
                /\ shotLog[i - 2].result = "raised"
                /\ shotLog[i - 2].call \in {"screenshot", "upload_callback"}
        /\ \A i \in CallsOf(shotLog, "upload_callback") :
            /\ shotLog[i - 1] = ShotCall("screenshot", 90000, "returned")
            /\ shotLog[i].result \in {"True", "False"} =>
                /\ i = Len(shotLog)
                /\ shotResult = (IF shotLog[i].result = "True" THEN "path" ELSE "None")
        /\ shotResult = "path" =>
               shotLog[Len(shotLog)] = ShotCall("upload_callback", 0, "True")
        /\ shotResult = "path" <=>
               \E k \in 1..Len(files) : files[k].kind = "mail_preview_full"

\* the full page screenshot was taken three times, the upload callback raised
\* once and returned True at last
C22_Witness ==
    /\ InTakeFallbackScreenshot
    /\ shotResult = "path"
    /\ Cardinality(CallsOf(shotLog, "screenshot")) = 3
    /\ \E i \in CallsOf(shotLog, "upload_callback") : shotLog[i].result = "raised"
    /\ \E i \in CallsOf(shotLog, "screenshot") : shotLog[i].result = "raised"

(***************************************************************************)
(* The result run returns.                                                 *)
(***************************************************************************)
\* run has left its try statement: success and error_message are final
AfterTry == {"finally", "save_logs", "copy_log", "done"}

\* C23: in both variants, on every path through run, the result has success
\* True exactly when its error_message is None; an exception's message, even
\* an empty one, is not None.
C23_SuccessIffNoErrorMessage ==
    (variant \in RunVariants /\ pc \in AfterTry) =>
        /\ ResultDictionary.success <=> ResultDictionary.error_message = "None"
        /\ ResultDictionary.success <=> error_message \notin
               {"Login failed", "Could not access Informed Delivery"}
                   \cup { Str(e) : e \in Exceptions }

\* run has returned after an exception without a message: success is False and
\* error_message is the empty string
C23_Witness ==
    /\ variant \in RunVariants
    /\ pc = "done"
    /\ ~ResultDictionary.success
    /\ ResultDictionary.error_message = ""

\* C24: run's success is True exactly when start_and_navigate did not raise
\* and attempt_login and find_informed_delivery both returned True; once
\* check_mail_images has been called, success is True however it went and
\* whatever number of files it persisted.
C24_SuccessIndependentOfImages ==
    (variant \in RunVariants /\ pc \in AfterTry) =>
        /\ success <=>
               /\ steps["start_and_navigate"] /= "raised"
               /\ steps["attempt_login"] = "True"
               /\ steps["find_informed_delivery"] = "True"
        /\ steps["check_mail_images"] /= "not called" =>
               /\ steps["check_mail_images"] = "returned"
               /\ ResultDictionary.success
               /\ ResultDictionary.images_downloaded \in 0..(MaxImages + 1)

\* run has returned success True with images_downloaded 0: the full page
\* screenshot was taken, and persisting it failed
C24_Witness ==
    /\ variant \in RunVariants
    /\ pc = "done"
    /\ ResultDictionary.success
    /\ ResultDictionary.images_downloaded = 0
    /\ fallbackTried
    /\ putCalled

\* the list of files in the dictionary run returns, and the count beside it
ReportedFiles ==
    IF variant = "lambda" THEN ResultDictionary.uploaded_files
    ELSE ResultDictionary.saved_files

ReportedCount ==
    IF variant = "lambda" THEN ResultDictionary.s3_uploads
    ELSE ResultDictionary.files_saved

\* C25: the files run reports are, one for one and in order, those for which
\* _upload_to_s3 (Lambda) or _save_to_file (local) returned True in this run;
\* images_downloaded equals s3_uploads or files_saved, and the list's length.
C25_OnlyPersistedFilesReported ==
    variant \in RunVariants =>
        /\ Len(ReportedFiles) = Len(persisted)
        /\ \A k \in 1..Len(persisted) : ReportedFiles[k].name = persisted[k]
        /\ \A j, k \in 1..Len(persisted) : persisted[j] = persisted[k] => j = k
        /\ persisted /= << >> => putCalled
        /\ ResultDictionary.images_downloaded = ReportedCount
        /\ ResultDictionary.images_downloaded = Len(ReportedFiles)

\* check_mail_images has returned: the first image was persisted and is
\* listed, the second was not persisted and is not listed
C25_Witness ==
    /\ variant \in RunVariants
    /\ pc = "finally"
    /\ uploadResult = "False"
    /\ Len(files) = 1
    /\ files[1].seq = 1
    /\ persisted = << files[1].name >>

(***************************************************************************)
(* Termination.                                                            *)
(***************************************************************************)
\* the entry point has returned: lambda_handler its response, run its
\* dictionary, check_mail_images and upload_logs their lists
Returned == pc = (IF variant = "lambda" THEN "responded" ELSE "done")

\* C26: when every external call returns or raises, every run comes to its
\* return and stays there: the loops over the selectors, the matched images,
\* the log files and the three attempts of each retry all end.
C26_RunTerminates ==
    /\ <>[]Returned
    /\ [](attempt < UploadAttempts /\ shotAttempt < max_retries /\ Len(putLog) <= UploadAttempts)

\* the local run has returned after both images were saved, the session was
\* stopped and a log file was copied
C26_Witness ==
    /\ variant = "local"
    /\ Returned
    /\ Len(files) = 2
    /\ stopCalls = 1
    /\ saved_logs /= << >>

====
